---- MODULE Spec2Model ----
(***************************************************************************)
(* Hdf5BaseDataProcessor: construction from a params dict, and             *)
(* create_dataloader, which shards files over tasks, decides whether       *)
(* sharding is disabled, seeds the shuffle, builds the sampler and the     *)
(* data loader, and initialises the worker partitions.                     *)
(*                                                                         *)
(* Each run (a process holding one processor object) is an element of      *)
(* Runs.  Optional values (a key absent from params, an attribute not yet  *)
(* set, an unseeded generator) are sequences: None is <<>>, Some(v) is     *)
(* <<v>>.                                                                  *)
(***************************************************************************)
EXTENDS Integers, Sequences, FiniteSets

\* ------------------------------------------------------------------ bounds
MaxSeed == 1
MaxWorkers == 2
MaxBatch == 2
MaxExamples == 3
MaxStreamers == 2
MaxFiles == 2
MaxCalls == 2

\* ------------------------------------------------------- program constants
DefaultNumWorkers == 0
DefaultPrefetchFactor == 10
SingleProcessPrefetch == 2

Runs == {1, 2}

None == <<>>
Some(v) == <<v>>
Get(opt, default) == IF opt = None THEN default ELSE opt[1]

VARIABLES
    params,      \* the params dict given to the constructor
    cm,          \* what the distributed runtime reports (shared by the runs)
    subclass,    \* which methods the concrete subclass defines
    active,      \* the runs that take part
    budget,      \* how many create_dataloader calls a run makes at most
    dataset,     \* what _shard_files can produce on the files on disk
    rank,        \* rank[r]: cm.get_streaming_rank() in run r
    pc,          \* pc[r]: where run r is
    self,        \* self[r]: the processor object's fields
    error,       \* error[r]: the exception that ended run r, "" if none
    cacheCalls,  \* cacheCalls[r]: calls of create_worker_cache
    torchSeed,   \* torchSeed[r]: seed given to torch.manual_seed, None if never
    pySeed,      \* pySeed[r]: seed given to random.seed, None if never
    shardOut,    \* shardOut[r]: what _shard_files last produced
    loader,      \* loader[r]: the keyword arguments the loader was built with
    calls,       \* calls[r]: create_dataloader calls started
    mainInits,   \* mainInits[r]: _worker_init_fn calls in the calling process
    hookCall,    \* hookCall[r]: the sharding call made in the calling process
    workers      \* workers[r][w]: loader subprocess w of run r

env == <<params, cm, subclass, active, budget, dataset, rank>>
ctorVars == <<cacheCalls, torchSeed>>
loaderVars == <<pySeed, shardOut, loader, calls>>
initVars == <<mainInits, hookCall, workers>>
vars == <<env, pc, self, error, ctorVars, loaderVars, initVars>>

\* ------------------------------------------------------------ pure helpers

\* cm.is_streamer() and not cm.is_appliance(), under use_worker_cache
CtorRaisesAnyProcess(use_worker_cache, is_streamer, is_appliance) ==
    use_worker_cache /\ ~is_appliance
CtorRaises(use_worker_cache, is_streamer, is_appliance) ==
    use_worker_cache /\ is_streamer /\ ~is_appliance

UsesWorkerCache(use_worker_cache, is_streamer, is_appliance) ==
    use_worker_cache /\ is_streamer /\ is_appliance

\* create_worker_cache(data_dir): the directory of the worker-local copy
CreateWorkerCache(data_dir) == [data_dir EXCEPT !.cached = TRUE]

\* "if self.shuffle_seed:" : None and 0 are both falsy
Truthy(shuffle_seed) == shuffle_seed # None /\ shuffle_seed[1] # 0

\* torch.manual_seed is called only under the truthiness test
CtorTorchSeed(shuffle_seed) ==
    IF Truthy(shuffle_seed) THEN shuffle_seed ELSE None

\* get_streaming_batch_size(params["batch_size"]): the per-streamer batch
\* size the runtime reports for the configured one
GetStreamingBatchSize(batch_size) == cm.streaming_batch_size

\* num_tasks() and task_id() of the input utilities
NumTasks == IF cm.is_streamer THEN cm.num_streamers ELSE 1
TaskId(r) == IF cm.is_streamer THEN rank[r] ELSE 0

\* "self.batch_size > self.num_examples // num_tasks()"
TooSmallGE(batch_size, num_examples, tasks) ==
    batch_size >= num_examples \div tasks
TooSmall(batch_size, num_examples, tasks) ==
    batch_size > num_examples \div tasks

\* seed = task_id() if shuffle_seed is None else shuffle_seed + task_id()
SeedForNoTask(shuffle_seed, tid) ==
    IF shuffle_seed = None THEN tid ELSE shuffle_seed[1]
SeedFor(shuffle_seed, tid) ==
    IF shuffle_seed = None THEN tid ELSE shuffle_seed[1] + tid

\* whether the shuffle branch seeds: shuffle and (duplicate or disabled)
SeedsShuffle(shuffle, duplicate, disabled) ==
    shuffle /\ (duplicate \/ disabled)

\* random.seed(seed); random.shuffle(files): the generator is a function of
\* the seed, so the outcome is one permutation fixed by (seed, length).  The
\* permutation stands for the Mersenne-Twister one: rotation by the seed.
Rotate(files, k) ==
    LET n == Len(files) IN
    IF n = 0 THEN files
    ELSE [i \in 1..n |-> files[((i - 1 + k) % n) + 1]]

Orderings(files) ==
    LET n == Len(files) IN
    { [i \in 1..n |-> files[p[i]]] :
        p \in { q \in [1..n -> 1..n] : \A i, j \in 1..n : q[i] = q[j] => i = j } }

ShuffleOutcomesUnseeded(seed, files) == Orderings(files)
ShuffleOutcomes(seed, files) == { Rotate(files, seed) }

\* the sampler: RandomSampler(self, generator) or SequentialSampler(self)
SamplerFor(shuffle, gen_seed) ==
    IF shuffle THEN [kind |-> "random", generator_seed |-> gen_seed]
    ELSE [kind |-> "sequential", generator_seed |-> None]

\* the keyword arguments of dataloader_fn(...)
LoaderArgsRaw(obj, sampler) ==
    [ impl |-> IF obj.use_fast_dataloader THEN "FastDataLoader" ELSE "DataLoader",
      batch_size |-> obj.batch_size,
      drop_last |-> obj.drop_last,
      num_workers |-> obj.num_workers,
      prefetch_factor |-> obj.prefetch_factor,
      persistent_workers |-> obj.persistent_workers,
      sampler |-> sampler ]
LoaderArgs(obj, sampler) ==
    [ impl |-> IF obj.use_fast_dataloader THEN "FastDataLoader" ELSE "DataLoader",
      batch_size |-> obj.batch_size,
      drop_last |-> obj.drop_last,
      num_workers |-> obj.num_workers,
      prefetch_factor |->
          IF obj.num_workers > 0 THEN obj.prefetch_factor
          ELSE SingleProcessPrefetch,
      persistent_workers |->
          IF obj.num_workers > 0 THEN obj.persistent_workers ELSE FALSE,
      sampler |-> sampler ]

\* "if self.num_workers == 0: self._worker_init_fn(0)"
InlineInitAlways(num_workers) == TRUE
InlineInit(num_workers) == num_workers = 0

\* _worker_init_fn: worker id and worker count from get_worker_info(), or
\* (0, 1) in single-process mode
WorkerIdentity(worker_info) ==
    IF worker_info # None
        THEN [worker_id |-> worker_info[1].id,
              num_workers |-> worker_info[1].num_workers]
        ELSE [worker_id |-> 0, num_workers |-> 1]

\* "self._maybe_shard_dataset(num_workers)": the method called and its
\* arguments
ShardCall(worker_id, num_workers) ==
    [method |-> "_maybe_shard_dataset", args |-> <<num_workers>>]

\* whether the called method resolves on the object
Resolves(call) ==
    \/ call.method = "_shard_dataset"
    \/ call.method = "_maybe_shard_dataset" /\ subclass.defines_maybe_shard

\* ------------------------------------------------------------------- state

Blank ==
    [ data_dir |-> [path |-> "", cached |-> FALSE],
      shuffle_seed |-> None, batch_size |-> 0, shuffle |-> FALSE,
      num_workers |-> 0, drop_last |-> FALSE, prefetch_factor |-> 0,
      persistent_workers |-> FALSE, num_tasks |-> 0, task_id |-> 0,
      num_examples |-> 0, files_in_this_task |-> <<>>,
      use_fast_dataloader |-> FALSE, duplicate_act_worker_data |-> FALSE,
      disable_sharding |-> FALSE, data_partitions |-> None ]

NoLoader ==
    [ impl |-> "", batch_size |-> 0, drop_last |-> FALSE, num_workers |-> 0,
      prefetch_factor |-> 0, persistent_workers |-> FALSE,
      sampler |-> [kind |-> "", generator_seed |-> None] ]

NoShard == [files |-> <<>>, num_examples |-> 0]

IdleWorker == [state |-> "idle", call |-> None, data_partitions |-> None]

WorkerIds == 0..(MaxWorkers - 1)

OptBool == {None, Some(TRUE), Some(FALSE)}
Seeds == {None} \cup { Some(s) : s \in 0..MaxSeed }
FileLists == { [i \in 1..k |-> i] : k \in 0..MaxFiles }
ShardOutputs == [files : FileLists, num_examples : 0..MaxExamples]
DataDir == [path |-> "/data", cached |-> FALSE]

\* what every initial state shares: nothing is constructed yet
Fresh ==
    /\ pc = [r \in Runs |-> "new"]
    /\ self = [r \in Runs |-> Blank]
    /\ error = [r \in Runs |-> ""]
    /\ cacheCalls = [r \in Runs |-> 0]
    /\ torchSeed = [r \in Runs |-> None]
    /\ pySeed = [r \in Runs |-> None]
    /\ shardOut = [r \in Runs |-> NoShard]
    /\ loader = [r \in Runs |-> NoLoader]
    /\ calls = [r \in Runs |-> 0]
    /\ mainInits = [r \in Runs |-> 0]
    /\ hookCall = [r \in Runs |-> None]
    /\ workers = [r \in Runs |-> [w \in WorkerIds |-> IdleWorker]]

Ranks == { rk \in [Runs -> 0..(MaxStreamers - 1)] :
             \A r \in Runs : rk[r] < cm.num_streamers }

\* ----------------------------------------------------------------- actions

\* __init__(params)
Construct(r) ==
    /\ r \in active
    /\ pc[r] = "new"
    /\ IF CtorRaises(params.use_worker_cache, cm.is_streamer, cm.is_appliance)
       THEN /\ pc' = [pc EXCEPT ![r] = "raised"]
            /\ error' = [error EXCEPT ![r] =
                   "use_worker_cache not supported for non-appliance runs"]
            /\ UNCHANGED <<self, ctorVars>>
       ELSE /\ pc' = [pc EXCEPT ![r] = "constructed"]
            /\ cacheCalls' = [cacheCalls EXCEPT ![r] =
                   IF UsesWorkerCache(params.use_worker_cache,
                                      cm.is_streamer, cm.is_appliance)
                   THEN @ + 1 ELSE @]
            /\ torchSeed' = [torchSeed EXCEPT ![r] =
                   IF CtorTorchSeed(params.shuffle_seed) # None
                   THEN CtorTorchSeed(params.shuffle_seed) ELSE @]
            /\ self' = [self EXCEPT ![r] =
                 [ data_dir |->
                       IF UsesWorkerCache(params.use_worker_cache,
                                          cm.is_streamer, cm.is_appliance)
                       THEN CreateWorkerCache(params.data_dir)
                       ELSE params.data_dir,
                   shuffle_seed |-> params.shuffle_seed,
                   batch_size |-> GetStreamingBatchSize(params.batch_size),
                   shuffle |-> Get(params.shuffle, TRUE),
                   num_workers |-> Get(params.num_workers, DefaultNumWorkers),
                   drop_last |-> Get(params.drop_last, TRUE),
                   prefetch_factor |->
                       Get(params.prefetch_factor, DefaultPrefetchFactor),
                   persistent_workers |-> Get(params.persistent_workers, TRUE),
                   num_tasks |->
                       IF cm.is_streamer THEN cm.num_streamers ELSE 1,
                   task_id |-> IF cm.is_streamer THEN rank[r] ELSE 0,
                   num_examples |-> 0,
                   files_in_this_task |-> <<>>,
                   use_fast_dataloader |->
                       Get(params.use_fast_dataloader, FALSE),
                   duplicate_act_worker_data |->
                       Get(params.duplicate_act_worker_data, FALSE),
                   disable_sharding |-> FALSE,
                   data_partitions |-> None ]]
            /\ UNCHANGED error
    /\ UNCHANGED <<env, loaderVars, initVars>>

\* create_dataloader, from _shard_files to the construction of the loader
BuildLoader(r) ==
    /\ r \in active
    /\ pc[r] \in {"constructed", "returned"}
    /\ calls[r] < budget
    /\ \E out \in dataset :
         LET disabled ==
                 IF TooSmall(self[r].batch_size, out.num_examples, NumTasks)
                 THEN TRUE ELSE self[r].disable_sharding
             seeds == SeedsShuffle(self[r].shuffle,
                                   self[r].duplicate_act_worker_data, disabled)
             seed == SeedFor(self[r].shuffle_seed, TaskId(r))
             gen == IF seeds THEN Some(seed) ELSE None
         IN
         \E files \in (IF seeds THEN ShuffleOutcomes(seed, out.files)
                       ELSE {out.files}) :
           /\ shardOut' = [shardOut EXCEPT ![r] = out]
           /\ pySeed' = [pySeed EXCEPT ![r] = IF seeds THEN Some(seed) ELSE @]
           /\ self' = [self EXCEPT ![r].num_examples = out.num_examples,
                                   ![r].files_in_this_task = files,
                                   ![r].disable_sharding = disabled]
           /\ loader' = [loader EXCEPT ![r] =
                  LoaderArgs(self'[r], SamplerFor(self[r].shuffle, gen))]
    /\ calls' = [calls EXCEPT ![r] = @ + 1]
    /\ workers' = [workers EXCEPT ![r] = [w \in WorkerIds |-> IdleWorker]]
    /\ pc' = [pc EXCEPT ![r] = "built"]
    /\ UNCHANGED <<env, error, ctorVars, mainInits, hookCall>>

\* create_dataloader, from the loader's construction to the return
FinishLoader(r) ==
    /\ r \in active
    /\ pc[r] = "built"
    /\ IF InlineInit(self[r].num_workers)
       THEN LET who == WorkerIdentity(None)
                call == ShardCall(who.worker_id, who.num_workers)
            IN
            /\ mainInits' = [mainInits EXCEPT ![r] = @ + 1]
            /\ hookCall' = [hookCall EXCEPT ![r] = Some(call)]
            /\ IF Resolves(call)
               THEN /\ self' = [self EXCEPT ![r].data_partitions = Some(call)]
                    /\ pc' = [pc EXCEPT ![r] = "returned"]
                    /\ UNCHANGED error
               ELSE /\ pc' = [pc EXCEPT ![r] = "raised"]
                    /\ error' = [error EXCEPT ![r] = "AttributeError"]
                    /\ UNCHANGED self
       ELSE /\ pc' = [pc EXCEPT ![r] = "returned"]
            /\ UNCHANGED <<self, error, mainInits, hookCall>>
    /\ UNCHANGED <<env, ctorVars, loaderVars, workers>>

\* _worker_init_fn(w) run by the loader in subprocess w, on its own copy of
\* the processor object
WorkerInit(r, w) ==
    /\ r \in active
    /\ pc[r] \in {"built", "returned"}
    /\ w < loader[r].num_workers
    /\ workers[r][w].state = "idle"
    /\ LET info == Some([id |-> w, num_workers |-> loader[r].num_workers])
           who == WorkerIdentity(info)
           call == ShardCall(who.worker_id, who.num_workers)
       IN workers' = [workers EXCEPT ![r][w] =
              IF Resolves(call)
              THEN [state |-> "ready", call |-> Some(call),
                    data_partitions |-> Some(call)]
              ELSE [state |-> "failed", call |-> Some(call),
                    data_partitions |-> None]]
    /\ UNCHANGED <<env, pc, self, error, ctorVars, loaderVars, mainInits,
                   hookCall>>

Next ==
    \/ \E r \in Runs : Construct(r)
    \/ \E r \in Runs : BuildLoader(r)
    \/ \E r \in Runs : FinishLoader(r)
    \/ \E r \in Runs, w \in WorkerIds : WorkerInit(r, w)

\* ------------------------------------------------------------ specifications

BaseParams ==
    [ use_worker_cache |-> FALSE, data_dir |-> DataDir,
      shuffle_seed |-> None, batch_size |-> MaxBatch, shuffle |-> None,
      num_workers |-> None, drop_last |-> None, prefetch_factor |-> None,
      persistent_workers |-> None, use_fast_dataloader |-> None,
      duplicate_act_worker_data |-> None ]

Runtimes ==
    [ is_streamer : BOOLEAN, is_appliance : BOOLEAN,
      num_streamers : 1..MaxStreamers, streaming_batch_size : 1..MaxBatch ]

\* construction: the worker cache, the runtime and the shuffle seed vary
InitCtor ==
    /\ Fresh
    /\ \E uwc \in BOOLEAN, seed \in Seeds, nw \in {None, Some(1)} :
         params = [BaseParams EXCEPT !.use_worker_cache = uwc,
                                     !.shuffle_seed = seed,
                                     !.num_workers = nw]
    /\ cm \in { c \in Runtimes : c.streaming_batch_size = MaxBatch }
    /\ subclass = [defines_maybe_shard |-> TRUE]
    /\ active = {1}
    /\ budget = 1
    /\ dataset = ShardOutputs
    /\ rank \in { rk \in Ranks : rk[2] = 0 }

Spec == InitCtor /\ [][Next]_vars

\* one run, repeated create_dataloader calls: the size comparison
InitSize ==
    /\ Fresh
    /\ \E sh \in OptBool, dup \in BOOLEAN, nw \in {None, Some(1)} :
         params = [BaseParams EXCEPT !.shuffle = sh,
                                     !.duplicate_act_worker_data = Some(dup),
                                     !.num_workers = nw]
    /\ cm \in { c \in Runtimes : c.is_appliance }
    /\ subclass = [defines_maybe_shard |-> TRUE]
    /\ active = {1}
    /\ budget = MaxCalls
    /\ dataset = ShardOutputs
    /\ rank \in { rk \in Ranks : rk[2] = 0 }

SpecSize == InitSize /\ [][Next]_vars

\* two runs of the same params over the same runtime and the same files on
\* disk (_shard_files has one outcome), one call each
InitPair ==
    /\ Fresh
    /\ \E sh \in BOOLEAN, dup \in BOOLEAN, seed \in Seeds,
          nw \in {Some(0), Some(1)} :
         params = [BaseParams EXCEPT !.shuffle = Some(sh),
                                     !.shuffle_seed = seed,
                                     !.duplicate_act_worker_data = Some(dup),
                                     !.num_workers = nw]
    /\ cm \in { c \in Runtimes : c.is_appliance /\ c.streaming_batch_size = 1 }
    /\ subclass = [defines_maybe_shard |-> TRUE]
    /\ active = Runs
    /\ budget = 1
    /\ \E out \in ShardOutputs : dataset = {out}
    /\ rank \in Ranks

SpecPair == InitPair /\ [][Next]_vars

\* one run: the loader's arguments and the worker initialisation vary
InitLoader ==
    /\ Fresh
    /\ \E sh \in BOOLEAN, fast \in OptBool, dl \in OptBool, pw \in OptBool,
          pf \in {None, Some(SingleProcessPrefetch), Some(4)},
          nw \in {None} \cup { Some(n) : n \in 0..MaxWorkers } :
         params = [BaseParams EXCEPT !.shuffle = Some(sh),
                                     !.use_fast_dataloader = fast,
                                     !.drop_last = dl,
                                     !.persistent_workers = pw,
                                     !.prefetch_factor = pf,
                                     !.num_workers = nw]
    /\ cm \in { c \in Runtimes :
                  c.is_appliance /\ ~c.is_streamer /\ c.num_streamers = 1 }
    /\ subclass \in [defines_maybe_shard : BOOLEAN]
    /\ active = {1}
    /\ budget = 1
    /\ dataset = ShardOutputs
    /\ rank = [r \in Runs |-> 0]

SpecLoader == InitLoader /\ [][Next]_vars

\* ------------------------------------------------------------------ claims

CacheError == "use_worker_cache not supported for non-appliance runs"
Made(r) == pc[r] \in {"built", "returned"}
Seeded(r) ==
    self[r].shuffle
        /\ (self[r].duplicate_act_worker_data \/ self[r].disable_sharding)

\* C1: two runs with the same params, the same streaming rank and task
\* count and the same output of _shard_files end with the same order of
\* files_in_this_task, the same disable_sharding and the same seed given to
\* the sampler generator, with shuffle on or off, shuffle_seed given or not.
C1_Deterministic ==
    \A a, b \in Runs :
        (Made(a) /\ Made(b) /\ rank[a] = rank[b] /\ shardOut[a] = shardOut[b])
        => /\ self[a].files_in_this_task = self[b].files_in_this_task
           /\ self[a].disable_sharding = self[b].disable_sharding
           /\ loader[a].sampler.generator_seed
                  = loader[b].sampler.generator_seed

\* both runs have shuffled the same two files out of the order _shard_files
\* gave, at the same rank
C1_Witness ==
    /\ pc[1] = "returned" /\ pc[2] = "returned"
    /\ rank[1] = rank[2]
    /\ Seeded(1) /\ Seeded(2)
    /\ Len(shardOut[1].files) >= 2
    /\ self[1].files_in_this_task # shardOut[1].files
    /\ self[2].files_in_this_task # shardOut[2].files

\* C2: the constructor raises the worker-cache RuntimeError exactly when
\* use_worker_cache is set on a streamer outside an appliance run, and then
\* create_worker_cache is never called; otherwise data_dir is the result of
\* create_worker_cache exactly on an appliance streamer with use_worker_cache,
\* and params["data_dir"] unchanged in every other case.
C2_WorkerCacheContract ==
    \A r \in Runs :
        pc[r] # "new" =>
            LET bad == params.use_worker_cache /\ cm.is_streamer
                           /\ ~cm.is_appliance
                cached == params.use_worker_cache /\ cm.is_streamer
                              /\ cm.is_appliance
            IN /\ (error[r] = CacheError) <=> bad
               /\ bad => pc[r] = "raised" /\ cacheCalls[r] = 0
               /\ ~bad => /\ cacheCalls[r] = (IF cached THEN 1 ELSE 0)
                          /\ self[r].data_dir =
                                 IF cached
                                 THEN [path |-> params.data_dir.path,
                                       cached |-> TRUE]
                                 ELSE params.data_dir

\* the constructor has raised on a streamer outside an appliance run
C2_Witness ==
    /\ pc[1] = "raised"
    /\ error[1] = CacheError
    /\ params.use_worker_cache /\ cm.is_streamer /\ ~cm.is_appliance

\* C3: each create_dataloader call compares on the num_examples its own
\* _shard_files produced: with batch_size > num_examples // num_tasks it sets
\* disable_sharding, otherwise it leaves disable_sharding as it was.
C3_SizeComparison ==
    [][\A r \in Runs :
          (pc[r] \in {"constructed", "returned"} /\ pc'[r] = "built")
          => /\ self'[r].num_examples = shardOut'[r].num_examples
             /\ IF self[r].batch_size
                      > shardOut'[r].num_examples \div self[r].num_tasks
                THEN self'[r].disable_sharding = TRUE
                ELSE self'[r].disable_sharding = self[r].disable_sharding]_vars

\* a second call on a dataset that is large enough, after a first call that
\* disabled sharding: the flag is still set
C3_Witness ==
    /\ pc[1] = "built"
    /\ calls[1] = 2
    /\ self[1].batch_size <= self[1].num_examples \div self[1].num_tasks
    /\ self[1].disable_sharding

\* C4: with shuffle and (duplicate_act_worker_data or disable_sharding) the
\* shuffle and the sampler generator get one seed, task_id when shuffle_seed
\* is None and shuffle_seed + task_id otherwise (0 included), so two tasks
\* with different ids get different seeds; otherwise nothing is seeded.
C4_SeedComputation ==
    /\ \A r \in Runs :
         Made(r) =>
            LET expected ==
                    IF params.shuffle_seed = None THEN self[r].task_id
                    ELSE params.shuffle_seed[1] + self[r].task_id
            IN IF Seeded(r)
               THEN /\ pySeed[r] = Some(expected)
                    /\ loader[r].sampler.generator_seed = Some(expected)
               ELSE /\ pySeed[r] = None
                    /\ loader[r].sampler.generator_seed = None
    /\ \A a, b \in Runs :
         (Made(a) /\ Made(b) /\ Seeded(a) /\ Seeded(b)
             /\ self[a].task_id # self[b].task_id)
         => loader[a].sampler.generator_seed
                # loader[b].sampler.generator_seed

\* two tasks of different ids, both seeded, under shuffle_seed = 0
C4_Witness ==
    /\ Made(1) /\ Made(2)
    /\ Seeded(1) /\ Seeded(2)
    /\ params.shuffle_seed = Some(0)
    /\ self[1].task_id # self[2].task_id
    /\ loader[1].sampler.generator_seed = Some(self[1].task_id)

\* C5: with num_workers = 0 the calling process runs the worker
\* initialisation once per create_dataloader call, after the loader is built
\* and before it is returned, so data_partitions is set at the return; with
\* num_workers > 0 the calling process never runs it and only the loader's
\* subprocesses set data_partitions.
C5_InitPlacement ==
    \A r \in Runs :
        /\ pc[r] = "built" =>
              /\ mainInits[r] =
                     (IF self[r].num_workers = 0 THEN calls[r] - 1 ELSE 0)
              /\ calls[r] = 1 => self[r].data_partitions = None
        /\ pc[r] = "returned" =>
              IF self[r].num_workers = 0
              THEN /\ mainInits[r] = calls[r]
                   /\ self[r].data_partitions # None
              ELSE /\ mainInits[r] = 0
                   /\ hookCall[r] = None
                   /\ self[r].data_partitions = None
        /\ \A w \in WorkerIds :
              workers[r][w].state # "idle" =>
                  /\ Made(r)
                  /\ self[r].num_workers > 0
                  /\ w < self[r].num_workers

\* the loader is returned in single-process mode with the partitions set
C5_Witness ==
    /\ pc[1] = "returned"
    /\ self[1].num_workers = 0
    /\ mainInits[1] = 1
    /\ self[1].data_partitions # None

\* C6: worker initialisation calls the declared hook
\* _shard_dataset(worker_id, num_workers), with the worker's id and the
\* worker count in a subprocess and with (0, 1) in single-process mode, and
\* stores its result in data_partitions.
C6_DeclaredHook ==
    \A r \in Runs :
        /\ hookCall[r] # None =>
              /\ hookCall[r][1] =
                     [method |-> "_shard_dataset", args |-> <<0, 1>>]
              /\ self[r].data_partitions = hookCall[r]
        /\ \A w \in WorkerIds :
              workers[r][w].state # "idle" =>
                  /\ workers[r][w].call[1] =
                         [method |-> "_shard_dataset",
                          args |-> <<w, self[r].num_workers>>]
                  /\ workers[r][w].data_partitions = workers[r][w].call

\* C7: the constructor seeds the global torch generator with every integer
\* shuffle_seed in params, and does not seed it when shuffle_seed is absent.
C7_GlobalSeed ==
    \A r \in Runs :
        (pc[r] # "new" /\ error[r] # CacheError)
        => torchSeed[r] = params.shuffle_seed

====
